---- MODULE Spec2Model ----
(***************************************************************************)
(* codemon-leaderboard: the scoring engine (calculateScoresAndStreaks),    *)
(* the standings source with its cache (getRawStandings), the aggregation  *)
(* endpoint (GET /api/multiconteststandings) and the subscription hub      *)
(* (subscribe / unsubscribe / pollAndBroadcast) of src/api/src/index.js.   *)
(*                                                                         *)
(* Conventions                                                             *)
(*  - a contest identifier is the integer its decimal string parses to;   *)
(*    the string comparisons of the code (contestId === '631207') are     *)
(*    integer equalities here;                                             *)
(*  - scores are kept in hundredths (Scale), multipliers in hundredths    *)
(*    (MultScale), so a customScore is in ten-thousandths;                 *)
(*  - a JavaScript Map is a function whose DOMAIN is the set of its keys.  *)
(***************************************************************************)
EXTENDS Integers, Sequences, FiniteSets, TLC

(***************************************************************************)
(* Bounds of the model.                                                    *)
(***************************************************************************)
MaxRows == 2
MaxRankRows == 3

(***************************************************************************)
(* Program constants.                                                      *)
(***************************************************************************)
Scale == 100
NoRank == -1
RankCutoff == 30
RankCutoff6 == 20
RankTop == 31
FlatScore == 5
FirstAcUnit == 2

Codemon1 == 631207
Codemon2 == 631208
Codemon3 == 631209
Codemon4 == 631210
Codemon5 == 631211
Codemon6 == 631212

(***************************************************************************)
(* Generic helpers.                                                        *)
(***************************************************************************)
MapHas(m, k) == k \in DOMAIN m

MapSet(m, k, v) == [x \in (DOMAIN m) \cup {k} |-> IF x = k THEN v ELSE m[x]]

MapDelete(m, k) == [x \in (DOMAIN m) \ {k} |-> m[x]]

EmptyMap == [x \in {} |-> 0]

Range(s) == {s[i] : i \in 1..Len(s)}

\* Array.prototype.sort is stable.  Keys are pairs <<k1, k2>>; a is strictly
\* before b when its pair is lexicographically smaller (the comparators of
\* the code are differences of one or two numeric fields).
KeyBefore(a, b) == a[1] < b[1] \/ (a[1] = b[1] /\ a[2] < b[2])

\* Insert index x into the sorted index list s: before the first index it
\* is strictly before, hence after every index it compares equal to.
RECURSIVE InsertStable(_, _, _)
InsertStable(x, s, keys) ==
    IF s = <<>> THEN <<x>>
    ELSE IF KeyBefore(keys[x], keys[Head(s)]) THEN <<x>> \o s
    ELSE <<Head(s)>> \o InsertStable(x, Tail(s), keys)

\* The stable sorting permutation of 1..n for the first n keys.
RECURSIVE SortPerm(_, _)
SortPerm(keys, n) ==
    IF n = 0 THEN <<>> ELSE InsertStable(n, SortPerm(keys, n - 1), keys)

StableSort(s, keys) ==
    LET p == SortPerm(keys, Len(s)) IN [i \in 1..Len(s) |-> s[p[i]]]

\* Array.prototype.findIndex / find with the predicate e => e[field] === value,
\* 1-based, 0 when nothing matches.
FindIndex(s, field, value) ==
    IF \E i \in 1..Len(s) : s[i][field] = value
    THEN CHOOSE i \in 1..Len(s) :
            s[i][field] = value /\ \A j \in 1..(i - 1) : s[j][field] # value
    ELSE 0

(***************************************************************************)
(* Scoring engine: calculateScoresAndStreaks(standingsData, contestId,     *)
(* userHistory).                                                           *)
(*   row           [handle, rank, points, penalty, problemResults]         *)
(*   problemResult [points, bestSubmissionTimeSeconds]                     *)
(*   standingsData [id, hasRows, rows, problems]  (problems: slot count,   *)
(*                  0 for an empty or a missing list)                      *)
(*   history entry [contestId, score, rank]                                *)
(***************************************************************************)

\* The scan in which a row that equals the best time so far takes the slot.
RECURSIVE firstAcScanLatest(_, _, _)
firstAcScanLatest(rows, index, acc) ==
    IF rows = <<>> THEN acc
    ELSE LET row == Head(rows)
             prs == row.problemResults
             hit == /\ index <= Len(prs)
                    /\ prs[index].points > 0
                    /\ (~acc.found \/ prs[index].bestSubmissionTimeSeconds <= acc.time)
             nxt == IF hit
                    THEN [found |-> TRUE, handle |-> row.handle,
                          time |-> prs[index].bestSubmissionTimeSeconds]
                    ELSE acc
         IN firstAcScanLatest(Tail(rows), index, nxt)

\* The scan of one problem slot over the rows (the for loop of the
\* detection): acc is firstAc, found = FALSE stands for
\* {handle: null, time: Infinity}.
RECURSIVE firstAcScan(_, _, _)
firstAcScan(rows, index, acc) ==
    IF rows = <<>> THEN acc
    ELSE LET row == Head(rows)
             prs == row.problemResults
             hit == /\ index <= Len(prs)
                    /\ prs[index].points > 0
                    /\ (~acc.found \/ prs[index].bestSubmissionTimeSeconds < acc.time)
             nxt == IF hit
                    THEN [found |-> TRUE, handle |-> row.handle,
                          time |-> prs[index].bestSubmissionTimeSeconds]
                    ELSE acc
         IN firstAcScan(Tail(rows), index, nxt)

NoFirstAc == [found |-> FALSE, handle |-> "", time |-> 0]

\* Map problem index -> {handle, time}; an index without a holder has no key.
firstAcByProblem(standingsData) ==
    LET slots == {i \in 1..standingsData.problems :
                    firstAcScan(standingsData.rows, i, NoFirstAc).found}
    IN [i \in slots |-> firstAcScan(standingsData.rows, i, NoFirstAc)]

\* The fixed per-handle tables of the contest branches.
firstAcBonuses3 == ("rupenderyadav55" :> 4) @@ ("rajzvx" :> 4) @@ ("Alok2122P" :> 2) @@ ("SR_24MM" :> 2)

firstAcBonuses4 == ("rajzvx" :> 4) @@ ("SR_24MM" :> 2) @@ ("SamyakJain092006" :> 2) @@ ("subhamjyotimaha1" :> 2)

firstAcBonuses5 == ("Charan_Harsha" :> 4) @@ ("rupenderyadav55" :> 2) @@ ("ammar_101" :> 2) @@ ("krispatel2702" :> 2)

firstAcBonuses6 == ("rupenderyadav55" :> 4) @@ ("AbhinavChalla" :> 2) @@ ("SOHAM_MAHAJAN" :> 2)

\* manualBaseScores 14.9, 16, 22.36 in hundredths.
manualBaseScores == ("SiddhantSangaonkar" :> 1490) @@ ("SamyakJain092006" :> 1600) @@ ("HailOtg" :> 2236)

TableGet(table, handle) == IF handle \in DOMAIN table THEN table[handle] ELSE 0

\* rankedBonus with the cutoff one rank early.
rankedBonusStrict(rank, cutoff) == IF rank < cutoff THEN (RankTop - rank) * Scale ELSE 0

\* if (row.rank <= cutoff) baseScore = 31 - row.rank, in hundredths.
rankedBonus(rank, cutoff) == IF rank <= cutoff THEN (RankTop - rank) * Scale ELSE 0

\* The generic branch's bonus: +2 for every own problem result with points
\* whose slot this handle holds at this very time.
RECURSIVE detectedBonus(_, _, _)
detectedBonus(row, index, firstAc) ==
    IF index = 0 THEN 0
    ELSE LET pr == row.problemResults[index]
             hit == /\ pr.points > 0
                    /\ index \in DOMAIN firstAc
                    /\ firstAc[index].handle = row.handle
                    /\ firstAc[index].time = pr.bestSubmissionTimeSeconds
         IN detectedBonus(row, index - 1, firstAc) + (IF hit THEN FirstAcUnit * Scale ELSE 0)

baseScoreOf(row, contestId) ==
    CASE contestId = Codemon2 -> FlatScore * Scale
      [] contestId = Codemon1 -> rankedBonus(row.rank, RankCutoff)
      [] contestId = Codemon3 -> rankedBonus(row.rank, RankCutoff)
      [] contestId = Codemon4 -> rankedBonus(row.rank, RankCutoff)
      [] contestId = Codemon5 ->
            IF row.handle \in DOMAIN manualBaseScores
            THEN manualBaseScores[row.handle]
            ELSE rankedBonus(row.rank, RankCutoff)
      [] contestId = Codemon6 -> rankedBonus(row.rank, RankCutoff6)
      [] OTHER -> IF row.points > 0 THEN rankedBonus(row.rank, RankCutoff) ELSE 0

firstAcBonusOf(row, contestId, firstAc) ==
    CASE contestId = Codemon2 -> 0
      [] contestId = Codemon1 -> 0
      [] contestId = Codemon3 -> TableGet(firstAcBonuses3, row.handle) * Scale
      [] contestId = Codemon4 -> TableGet(firstAcBonuses4, row.handle) * Scale
      [] contestId = Codemon5 -> TableGet(firstAcBonuses5, row.handle) * Scale
      [] contestId = Codemon6 -> TableGet(firstAcBonuses6, row.handle) * Scale
      [] OTHER -> IF row.points > 0
                  THEN detectedBonus(row, Len(row.problemResults), firstAc)
                  ELSE 0

\* One row of scoredRows: the raw row with rawScore, baseScore, firstAcBonus.
scoreRow(row, contestId, firstAc) ==
    LET baseScore == baseScoreOf(row, contestId)
        firstAcBonus == firstAcBonusOf(row, contestId, firstAc)
    IN [handle |-> row.handle, rank |-> row.rank, points |-> row.points,
        penalty |-> row.penalty, problemResults |-> row.problemResults,
        rawScore |-> baseScore + firstAcBonus,
        baseScore |-> baseScore, firstAcBonus |-> firstAcBonus]

hasEntry(history, contestId) == \E i \in 1..Len(history) : history[i].contestId = contestId

\* upsertEntry without the lookup of an existing entry: always pushes.
upsertEntryAlwaysPush(userHistory, handle, contestId, score, rank) ==
    LET history == IF MapHas(userHistory, handle) THEN userHistory[handle] ELSE <<>>
    IN MapSet(userHistory, handle,
              Append(history, [contestId |-> contestId, score |-> score, rank |-> rank]))

\* The history upsert of one row: find-or-create the handle's list, then
\* overwrite the entry of this contest or push a new one.
upsertEntry(userHistory, handle, contestId, score, rank) ==
    LET history == IF MapHas(userHistory, handle) THEN userHistory[handle] ELSE <<>>
        idx == FindIndex(history, "contestId", contestId)
        entry == [contestId |-> contestId, score |-> score, rank |-> rank]
    IN MapSet(userHistory, handle,
              IF idx = 0 THEN Append(history, entry)
              ELSE [history EXCEPT ![idx] = entry])

\* The upserts of standingsData.rows.map(...), row after row.
RECURSIVE upsertRows(_, _, _)
upsertRows(userHistory, rows, contestId) ==
    IF rows = <<>> THEN userHistory
    ELSE upsertRows(upsertEntry(userHistory, Head(rows).handle, contestId,
                                Head(rows).rawScore, Head(rows).rank),
                    Tail(rows), contestId)

\* A history left in insertion order.
sortHistoryOmitted(history) == history

\* history.sort((a, b) => parseInt(a.contestId) - parseInt(b.contestId))
sortHistory(history) ==
    StableSort(history, [i \in 1..Len(history) |-> <<history[i].contestId, 0>>])

\* for (i = idx; i >= 0; i--) if (history[i].score > 0) streak++; else break;
RECURSIVE streakFrom(_, _)
streakFrom(history, i) ==
    IF i = 0 THEN 0
    ELSE IF history[i].score > 0 THEN 1 + streakFrom(history, i - 1)
    ELSE 0

streakOf(history, contestId) ==
    LET sorted == sortHistory(history)
        currentContestIdx == FindIndex(sorted, "contestId", contestId)
    IN streakFrom(sorted, currentContestIdx)

MultScale == 100
Mult4 == 115
Mult3 == 110
Mult2 == 105

\* streakMultiplier with the top step taken one contest late (streak > 4).
streakMultiplierLate(streak) ==
    IF streak > 4 THEN Mult4
    ELSE IF streak = 3 THEN Mult3
    ELSE IF streak = 2 THEN Mult2
    ELSE MultScale

\* streakMultiplier, in hundredths.
streakMultiplier(streak) ==
    IF streak >= 4 THEN Mult4
    ELSE IF streak = 3 THEN Mult3
    ELSE IF streak = 2 THEN Mult2
    ELSE MultScale

\* One row of finalScoredRows (scores in hundredths x hundredths).
finalRow(row, userHistory, contestId) ==
    LET streak == streakOf(userHistory[row.handle], contestId)
        mult == streakMultiplier(streak)
    IN [handle |-> row.handle, rank |-> row.rank, points |-> row.points,
        penalty |-> row.penalty, problemResults |-> row.problemResults,
        rawScore |-> row.rawScore, baseScore |-> row.baseScore,
        firstAcBonus |-> row.firstAcBonus,
        customScore |-> row.rawScore * mult,
        streak |-> streak,
        streakBonus |-> row.rawScore * (mult - MultScale)]

\* finalScoredRows.sort((a, b) => b.customScore - a.customScore || a.penalty - b.penalty)
sortRows(rows) ==
    StableSort(rows, [i \in 1..Len(rows) |-> <<0 - rows[i].customScore, rows[i].penalty>>])

\* assignRanks numbering the distinct rows 1, 2, 3, ... (currentRank + 1
\* in place of index + 1).
RECURSIVE assignRanksDense(_, _, _, _, _)
assignRanksDense(rows, i, currentRank, lastScore, lastPenalty) ==
    IF i > Len(rows) THEN rows
    ELSE LET changed == rows[i].customScore # lastScore \/ rows[i].penalty # lastPenalty
             rank == IF changed THEN currentRank + 1 ELSE currentRank
         IN assignRanksDense([rows EXCEPT ![i].rank = rank], i + 1, rank,
                             IF changed THEN rows[i].customScore ELSE lastScore,
                             IF changed THEN rows[i].penalty ELSE lastPenalty)

\* The forEach that assigns row.rank, from index i on (1-based), with the
\* loop's currentRank, lastScore, lastPenalty.
RECURSIVE assignRanks(_, _, _, _, _)
assignRanks(rows, i, currentRank, lastScore, lastPenalty) ==
    IF i > Len(rows) THEN rows
    ELSE LET changed == rows[i].customScore # lastScore \/ rows[i].penalty # lastPenalty
             rank == IF changed THEN i ELSE currentRank
         IN assignRanks([rows EXCEPT ![i].rank = rank], i + 1, rank,
                        IF changed THEN rows[i].customScore ELSE lastScore,
                        IF changed THEN rows[i].penalty ELSE lastPenalty)

rerank(rows) == assignRanks(sortRows(rows), 1, 0, -1, -1)

\* absentPass without the check for an existing entry of the contest.
absentPassNoCheck(userHistory, contestParticipants, contestId) ==
    [handle \in DOMAIN userHistory |->
        IF handle \notin contestParticipants
        THEN Append(userHistory[handle],
                    [contestId |-> contestId, score |-> 0, rank |-> NoRank])
        ELSE userHistory[handle]]

\* absentPass that adds nothing.
absentPassSkipped(userHistory, contestParticipants, contestId) == userHistory

\* absentPass that records a positive score for the absent handle.
absentPassPositive(userHistory, contestParticipants, contestId) ==
    [handle \in DOMAIN userHistory |->
        IF handle \notin contestParticipants /\ ~hasEntry(userHistory[handle], contestId)
        THEN Append(userHistory[handle],
                    [contestId |-> contestId, score |-> Scale, rank |-> NoRank])
        ELSE userHistory[handle]]

\* The absent-participant pass over userHistory.entries().
absentPass(userHistory, contestParticipants, contestId) ==
    [handle \in DOMAIN userHistory |->
        IF handle \notin contestParticipants /\ ~hasEntry(userHistory[handle], contestId)
        THEN Append(userHistory[handle],
                    [contestId |-> contestId, score |-> 0, rank |-> NoRank])
        ELSE userHistory[handle]]

\* The function without its guard on the row list: a record without one is
\* taken through the pass as a record with no rows.
calculateScoresAndStreaksUnguarded(standingsData, contestId, userHistory) ==
    LET firstAc == firstAcByProblem(standingsData)
        rows == standingsData.rows
        contestParticipants == {rows[i].handle : i \in 1..Len(rows)}
        scoredRows == [i \in 1..Len(rows) |-> scoreRow(rows[i], contestId, firstAc)]
        upserted == upsertRows(userHistory, scoredRows, contestId)
        finalScoredRows == [i \in 1..Len(rows) |-> finalRow(scoredRows[i], upserted, contestId)]
        sortedHistory == [handle \in DOMAIN upserted |->
                            IF handle \in contestParticipants
                            THEN sortHistory(upserted[handle])
                            ELSE upserted[handle]]
    IN [data |-> [standingsData EXCEPT !.rows = rerank(finalScoredRows)],
        history |-> absentPass(sortedHistory, contestParticipants, contestId)]

\* The function as a whole: the returned record and the history it leaves.
calculateScoresAndStreaks(standingsData, contestId, userHistory) ==
    IF ~standingsData.hasRows
    THEN [data |-> standingsData, history |-> userHistory]
    ELSE
      LET firstAc == firstAcByProblem(standingsData)
          rows == standingsData.rows
          contestParticipants == {rows[i].handle : i \in 1..Len(rows)}
          scoredRows == [i \in 1..Len(rows) |-> scoreRow(rows[i], contestId, firstAc)]
          upserted == upsertRows(userHistory, scoredRows, contestId)
          finalScoredRows == [i \in 1..Len(rows) |-> finalRow(scoredRows[i], upserted, contestId)]
          sortedHistory == [handle \in DOMAIN upserted |->
                              IF handle \in contestParticipants
                              THEN sortHistory(upserted[handle])
                              ELSE upserted[handle]]
      IN [data |-> [standingsData EXCEPT !.rows = rerank(finalScoredRows)],
          history |-> absentPass(sortedHistory, contestParticipants, contestId)]

(***************************************************************************)
(* Inputs of the model: handles, contests, raw standings.                  *)
(***************************************************************************)
Handles == {"A", "B"}

\* Row shapes: [rank, points, penalty, problemResults].
Solved(time) == <<[points |-> 1, bestSubmissionTimeSeconds |-> time]>>

Unsolved == <<[points |-> 0, bestSubmissionTimeSeconds |-> 0]>>

RowKinds ==
    { [rank |-> 1, points |-> 1, penalty |-> 0, problemResults |-> <<>>],
      [rank |-> 1, points |-> 1, penalty |-> 1, problemResults |-> Solved(5)],
      [rank |-> 31, points |-> 1, penalty |-> 0, problemResults |-> Solved(9)],
      [rank |-> 2, points |-> 0, penalty |-> 0, problemResults |-> Unsolved] }

MakeRow(handle, kind) ==
    [handle |-> handle, rank |-> kind.rank, points |-> kind.points,
     penalty |-> kind.penalty, problemResults |-> kind.problemResults]

RowsOver(handles, kinds) == {MakeRow(h, k) : h \in handles, k \in kinds}

DistinctHandles(rows) ==
    \A i, j \in 1..Len(rows) : i # j => rows[i].handle # rows[j].handle

\* Row lists of at most n rows, handles unique within the list.
RowLists(handles, kinds, n) ==
    {rows \in UNION {[1..k -> RowsOver(handles, kinds)] : k \in 0..n} : DistinctHandles(rows)}

MakeData(contestId, rows) ==
    [id |-> contestId, hasRows |-> TRUE, rows |-> rows, problems |-> 1]

\* A record without a row list.
NoRows(contestId) == [id |-> contestId, hasRows |-> FALSE, rows |-> <<>>, problems |-> 0]

Records(contestId, handles, kinds, n) ==
    {MakeData(contestId, rows) : rows \in RowLists(handles, kinds, n)} \cup {NoRows(contestId)}

(***************************************************************************)
(* State.                                                                  *)
(***************************************************************************)
VARIABLES
    \* the direct engine calls
    userHistory,   \* the userHistory argument of a direct engine call
    lastCall,      \* [called, contestId, standingsData] of the latest call
    lastResult,    \* the record the latest call returned
    repeated,      \* the latest call had the arguments of the one before
    \* the process
    contestCache,        \* Map contestId -> raw standings
    userContestHistory,  \* Map handle -> history list (process-wide)
    leaderboards,        \* Map local contestId -> parsed leaderboard file
    rooms,               \* Map contestId -> Set of sockets
    intervals,           \* keys of the Map contestId -> timer
    activeTimers,        \* contestId -> number of interval timers running
    \* the sockets and the calls in flight
    readyState,          \* socket -> "CONNECTING" | "OPEN" | "CLOSING" | "CLOSED"
    socketContest,       \* socket -> the contestId of its connection URL
    polls,               \* contestId -> polls waiting for fetchStandings
    agg,                 \* the aggregation request being served
    orphans,             \* contestId -> fetches of a request already answered
    \* what the latest handler did
    event,               \* [op, contestId, polls, fetches]: the handler, the
                         \* pollAndBroadcast and fetchStandings calls it made
    outbox,              \* socket -> messages it sent to the socket, by type
    response             \* the HTTP response it sent, NoResponse when none

engineVars == <<userHistory, lastCall, lastResult, repeated>>

storeVars == <<contestCache, userContestHistory, leaderboards>>

hubVars == <<rooms, intervals, activeTimers, readyState, socketContest, polls>>

aggVars == <<agg, orphans>>

logVars == <<event, outbox, response>>

vars == <<engineVars, storeVars, hubVars, aggVars, logVars>>

(***************************************************************************)
(* Standings source: getRawStandings(contestId).                           *)
(***************************************************************************)
LocalCids == {Codemon1, Codemon2, Codemon3, Codemon4, Codemon5, Codemon6}

\* Contests whose usernames go through invertedUsernameMapping.
MappedCids == {Codemon2, Codemon4, Codemon5, Codemon6}

\* mapping.txt is not part of the sources: no username is mapped.
invertedUsernameMapping == EmptyMap

ExtraRank == 999

\* The three rows pushed after the file's rows for contest 631211.
extraRows5 ==
    [i \in 1..3 |->
        [handle |-> <<"SiddhantSangaonkar", "SamyakJain092006", "HailOtg">>[i],
         rank |-> ExtraRank, points |-> 0, penalty |-> 0, problemResults |-> <<>>]]

\* The synthetic standings of a local contest, built from its leaderboard.
localStandings(contestId, leaderboard) ==
    LET rows == [i \in 1..Len(leaderboard) |->
                   [handle |-> IF contestId \in MappedCids
                                  /\ leaderboard[i].username \in DOMAIN invertedUsernameMapping
                               THEN invertedUsernameMapping[leaderboard[i].username]
                               ELSE leaderboard[i].username,
                    rank |-> leaderboard[i].rank,
                    points |-> IF contestId = Codemon2 THEN FlatScore
                               ELSE IF leaderboard[i].rank <= RankCutoff
                                    THEN RankTop - leaderboard[i].rank ELSE 0,
                    penalty |-> 0,
                    problemResults |-> <<>>]]
    IN [id |-> contestId, hasRows |-> TRUE,
        rows |-> IF contestId = Codemon5 THEN rows \o extraRows5 ELSE rows,
        problems |-> 0]

\* getRawStandings up to its await: "cached" and "local" return at once
\* (the local branch stores its record), "remote" calls fetchStandings.
getRawStandings(contestId, cache, boards) ==
    IF MapHas(cache, contestId)
    THEN [how |-> "cached", data |-> cache[contestId], cache |-> cache]
    ELSE IF contestId \in LocalCids
    THEN LET fake == localStandings(contestId, boards[contestId])
         IN [how |-> "local", data |-> fake, cache |-> MapSet(cache, contestId, fake)]
    ELSE [how |-> "remote", data |-> NoRows(contestId), cache |-> cache]

(***************************************************************************)
(* Aggregation: GET /api/multiconteststandings.                            *)
(***************************************************************************)
\* The scoring loop over the chronologically sorted records, against the
\* request-scoped history; processedContests is a Map contestId -> record.
RECURSIVE processContests(_, _, _)
processContests(allRaw, history, processed) ==
    IF allRaw = <<>> THEN processed
    ELSE LET rawData == Head(allRaw)
             res == calculateScoresAndStreaks(rawData, rawData.id, history)
         IN processContests(Tail(allRaw), res.history, MapSet(processed, rawData.id, res.data))

\* allRawContestData.sort((a, b) => parseInt(a.contest.id) - parseInt(b.contest.id))
sortContests(allRaw) ==
    StableSort(allRaw, [i \in 1..Len(allRaw) |-> <<allRaw[i].id, 0>>])

\* addRow that makes a new entry for every row.
addRowAlwaysNew(entries, row, contestId) ==
    Append(entries,
           [handle |-> row.handle, score |-> row.customScore, penalty |-> row.penalty,
            contests |-> MapSet(EmptyMap, contestId,
                                [score |-> row.customScore, rank |-> row.rank,
                                 streak |-> row.streak, baseScore |-> row.baseScore,
                                 firstAcBonus |-> row.firstAcBonus,
                                 streakBonus |-> row.streakBonus])])

\* One row added to cumulativeScores (a Map in insertion order: a list).
addRow(entries, row, contestId) ==
    LET idx == FindIndex(entries, "handle", row.handle)
        base == IF idx = 0
                THEN Append(entries, [handle |-> row.handle, score |-> 0,
                                      penalty |-> 0, contests |-> EmptyMap])
                ELSE entries
        k == IF idx = 0 THEN Len(base) ELSE idx
        detail == [score |-> row.customScore, rank |-> row.rank, streak |-> row.streak,
                   baseScore |-> row.baseScore, firstAcBonus |-> row.firstAcBonus,
                   streakBonus |-> row.streakBonus]
    IN [base EXCEPT ![k] = [handle |-> row.handle,
                             score |-> base[k].score + row.customScore,
                             penalty |-> base[k].penalty + row.penalty,
                             contests |-> MapSet(base[k].contests, contestId, detail)]]

RECURSIVE addRows(_, _, _)
addRows(entries, rows, contestId) ==
    IF rows = <<>> THEN entries
    ELSE addRows(addRow(entries, Head(rows), contestId), Tail(rows), contestId)

\* for (const contestId of ids): the requested order.
RECURSIVE accumulate(_, _, _)
accumulate(entries, ids, processed) ==
    IF ids = <<>> THEN entries
    ELSE IF ~MapHas(processed, Head(ids)) THEN accumulate(entries, Tail(ids), processed)
    ELSE accumulate(addRows(entries, processed[Head(ids)].rows, Head(ids)),
                    Tail(ids), processed)

\* The leaderboard sorted by score ascending.
sortLeaderboardAscending(entries) ==
    StableSort(entries, [i \in 1..Len(entries) |-> <<entries[i].score, entries[i].penalty>>])

\* .sort((a, b) => b.score - a.score || a.penalty - b.penalty)
sortLeaderboard(entries) ==
    StableSort(entries, [i \in 1..Len(entries) |-> <<0 - entries[i].score, entries[i].penalty>>])

NoResponse == [status |-> 0, leaderboard |-> <<>>, ids |-> <<>>, raw |-> <<>>]

\* The handler's body once Promise.all has resolved with allRaw (one record
\* per requested id, in the requested order).  Iterating the rows of a
\* processed record that has no row list throws: the catch answers 500.
multiContestStandings(ids, allRaw) ==
    LET processed == processContests(sortContests(allRaw), EmptyMap, EmptyMap)
        throws == \E i \in 1..Len(ids) :
                     MapHas(processed, ids[i]) /\ ~processed[ids[i]].hasRows
    IN IF throws THEN [status |-> 500, leaderboard |-> <<>>]
       ELSE [status |-> 200,
             leaderboard |-> sortLeaderboard(accumulate(<<>>, ids, processed))]

(***************************************************************************)
(* The state after start-up.                                               *)
(***************************************************************************)
NumSockets == 2

Sockets == 1..NumSockets

\* The contests clients subscribe to and ask for.
Cids == {10, 20, 30}

HubCids == {10, 20}

NoCall == [called |-> FALSE, contestId |-> 0, standingsData |-> NoRows(0)]

NoEvent == [op |-> "start", contestId |-> 0, polls |-> 0, fetches |-> 0]

NoMessages == [s \in Sockets |-> [standings |-> 0, errors |-> 0]]

Idle == [state |-> "idle", ids |-> <<>>, got |-> <<>>, pending |-> {}]

\* leaderboard-codemonN.txt as parsed by parseTxt.
LeaderboardFile ==
    <<[rank |-> 1, username |-> "A"], [rank |-> 2, username |-> "B"],
      [rank |-> 3, username |-> "C"]>>

InitEngine ==
    /\ userHistory = EmptyMap
    /\ lastCall = NoCall
    /\ lastResult = NoRows(0)
    /\ repeated = FALSE

Init ==
    /\ InitEngine
    /\ contestCache = EmptyMap
    /\ userContestHistory = EmptyMap
    /\ leaderboards = [c \in LocalCids |-> LeaderboardFile]
    /\ rooms = EmptyMap
    /\ intervals = {}
    /\ activeTimers = [c \in Cids |-> 0]
    /\ readyState = [s \in Sockets |-> "CONNECTING"]
    /\ socketContest = [s \in Sockets |-> 0]
    /\ polls = [c \in Cids |-> 0]
    /\ agg = Idle
    /\ orphans = [c \in Cids |-> 0]
    /\ response = NoResponse
    /\ event = NoEvent
    /\ outbox = NoMessages

\* One direct call calculateScoresAndStreaks(standingsData, contestId, userHistory).
ScorePass(contestId, standingsData) ==
    LET call == [called |-> TRUE, contestId |-> contestId, standingsData |-> standingsData]
        res == calculateScoresAndStreaks(standingsData, contestId, userHistory)
    IN /\ userHistory' = res.history
       /\ lastResult' = res.data
       /\ lastCall' = call
       /\ repeated' = (lastCall = call)
       /\ UNCHANGED <<storeVars, hubVars, aggVars, logVars>>

\* Direct calls over two handles and two contests.
ScoreCids == {10, 20}

StreakKinds == {k \in RowKinds : k.problemResults = <<>> \/ k.points = 0}

NextScore ==
    \E c \in ScoreCids : \E d \in Records(c, Handles, StreakKinds, MaxRows) : ScorePass(c, d)

SpecScore == Init /\ [][NextScore]_vars

\* Direct calls for one handle over a longer run of contests: the streaks.
NumStreakContests == 4

StreakCids == {10 * i : i \in 1..NumStreakContests}

NextStreak ==
    \E c \in StreakCids : \E d \in Records(c, {"A"}, StreakKinds, MaxRows) : ScorePass(c, d)

SpecStreak == Init /\ [][NextStreak]_vars

\* Direct calls on one contest with up to three rows of every kind: the
\* first-accept detection and the re-ranking.
RankHandles == <<"A", "B", "C", "D">>

RankCids == {10}

\* Row lists whose i-th row is of the i-th handle, every kind in every place.
RankRecords ==
    {MakeData(c, [i \in 1..Len(kinds) |-> MakeRow(RankHandles[i], kinds[i])]) :
        c \in RankCids, kinds \in UNION {[1..k -> RowKinds] : k \in 0..MaxRankRows}}

NextRank ==
    \E d \in RankRecords : ScorePass(d.id, d)

SpecRank == Init /\ [][NextRank]_vars

\* Direct calls on one generic contest whose rows carry a result for every
\* problem: unsolved, or solved at one of two times.
MaxFirstAcRows == 2

NumProblems == 2

ProblemKinds ==
    { [points |-> 0, bestSubmissionTimeSeconds |-> 0],
      [points |-> 1, bestSubmissionTimeSeconds |-> 5],
      [points |-> 1, bestSubmissionTimeSeconds |-> 9] }

pointsOf(prs) == Cardinality({p \in 1..Len(prs) : prs[p].points > 0})

FirstAcRecords ==
    {[id |-> c, hasRows |-> TRUE, problems |-> NumProblems,
      rows |-> [i \in 1..Len(results) |->
                   [handle |-> RankHandles[i], rank |-> i, points |-> pointsOf(results[i]),
                    penalty |-> 0, problemResults |-> results[i]]]] :
        c \in RankCids,
        results \in UNION {[1..k -> [1..NumProblems -> ProblemKinds]] : k \in 0..MaxFirstAcRows}}

NextFirstAc ==
    \E d \in FirstAcRecords : ScorePass(d.id, d)

SpecFirstAc == Init /\ [][NextFirstAc]_vars

\* Direct calls on contest 631207 with one row at every rank up to MaxRank.
MaxRank == 33

RankedCids == {Codemon1}

RankedRecords ==
    {MakeData(c, <<[handle |-> "A", rank |-> r, points |-> p, penalty |-> 0,
                    problemResults |-> pr]>>) :
        c \in RankedCids, r \in 1..MaxRank, p \in {0, 1}, pr \in {<<>>, Solved(5)}}

NextRanked ==
    \E d \in RankedRecords : ScorePass(d.id, d)

SpecRanked == Init /\ [][NextRanked]_vars

(***************************************************************************)
(* Subscription hub: subscribe, unsubscribe, pollAndBroadcast.             *)
(***************************************************************************)
MaxInFlight == 2

\* subscribe that polls once for the first listener and sets no interval
\* timer running.
subscribePollOnce(ws, contestId) ==
    LET set == IF MapHas(rooms, contestId) THEN rooms[contestId] ELSE {}
    IN [rooms |-> MapSet(rooms, contestId, set \cup {ws}),
        intervals |-> intervals \cup {contestId},
        activeTimers |-> activeTimers,
        poll |-> contestId \notin intervals]

\* subscribe that starts a timer and a poll for every listener.
subscribeAlways(ws, contestId) ==
    LET set == IF MapHas(rooms, contestId) THEN rooms[contestId] ELSE {}
    IN [rooms |-> MapSet(rooms, contestId, set \cup {ws}),
        intervals |-> intervals \cup {contestId},
        activeTimers |-> [activeTimers EXCEPT ![contestId] = @ + 1],
        poll |-> TRUE]

\* subscribe(ws, contestId): the listener set, the timer and whether the
\* immediate pollAndBroadcast is started.
subscribe(ws, contestId) ==
    LET set == IF MapHas(rooms, contestId) THEN rooms[contestId] ELSE {}
        first == contestId \notin intervals
    IN [rooms |-> MapSet(rooms, contestId, set \cup {ws}),
        intervals |-> intervals \cup {contestId},
        activeTimers |-> IF first THEN [activeTimers EXCEPT ![contestId] = @ + 1]
                         ELSE activeTimers,
        poll |-> first]

\* unsubscribe that clears the timer of an emptied room and keeps the room.
unsubscribeKeepRoom(ws, contestId) ==
    IF ~MapHas(rooms, contestId)
    THEN [rooms |-> rooms, intervals |-> intervals, activeTimers |-> activeTimers]
    ELSE LET set == rooms[contestId] \ {ws}
         IN IF set # {}
            THEN [rooms |-> MapSet(rooms, contestId, set), intervals |-> intervals,
                  activeTimers |-> activeTimers]
            ELSE [rooms |-> MapSet(rooms, contestId, set),
                  intervals |-> intervals \ {contestId},
                  activeTimers |-> IF contestId \in intervals /\ activeTimers[contestId] > 0
                                   THEN [activeTimers EXCEPT ![contestId] = @ - 1]
                                   ELSE activeTimers]

\* unsubscribe that drops the empty room and leaves its timer running.
unsubscribeKeepTimer(ws, contestId) ==
    IF ~MapHas(rooms, contestId)
    THEN [rooms |-> rooms, intervals |-> intervals, activeTimers |-> activeTimers]
    ELSE LET set == rooms[contestId] \ {ws}
         IN [rooms |-> IF set # {} THEN MapSet(rooms, contestId, set)
                       ELSE MapDelete(rooms, contestId),
             intervals |-> intervals, activeTimers |-> activeTimers]

\* unsubscribe(ws, contestId).
unsubscribe(ws, contestId) ==
    IF ~MapHas(rooms, contestId)
    THEN [rooms |-> rooms, intervals |-> intervals, activeTimers |-> activeTimers]
    ELSE LET set == rooms[contestId] \ {ws}
         IN IF set # {}
            THEN [rooms |-> MapSet(rooms, contestId, set), intervals |-> intervals,
                  activeTimers |-> activeTimers]
            ELSE [rooms |-> MapDelete(rooms, contestId),
                  intervals |-> intervals \ {contestId},
                  activeTimers |-> IF contestId \in intervals /\ activeTimers[contestId] > 0
                                   THEN [activeTimers EXCEPT ![contestId] = @ - 1]
                                   ELSE activeTimers]

\* A broadcast to the OPEN clients of every room.
recipientsEveryRoom(contestId, roomsNow, readyNow) ==
    {ws \in Sockets : readyNow[ws] = "OPEN" /\ \E c \in DOMAIN roomsNow : ws \in roomsNow[c]}

\* A broadcast that gives up at a client that is not OPEN.
recipientsAllOrNone(contestId, roomsNow, readyNow) ==
    IF ~MapHas(roomsNow, contestId) THEN {}
    ELSE IF \E ws \in roomsNow[contestId] : readyNow[ws] # "OPEN" THEN {}
    ELSE roomsNow[contestId]

\* The sockets a broadcast for contestId writes to: the registered clients
\* whose readyState is OPEN; none when the room is gone.
recipients(contestId, roomsNow, readyNow) ==
    IF ~MapHas(roomsNow, contestId) THEN {}
    ELSE {ws \in roomsNow[contestId] : readyNow[ws] = "OPEN"}

\* A broadcast that sends the standings payload whatever the type.
broadcastPayloadOnly(to, type) ==
    [ws \in Sockets |->
        IF ws \notin to THEN [standings |-> 0, errors |-> 0]
        ELSE [standings |-> 1, errors |-> 0]]

\* for (const ws of clients) if (ws.readyState === ws.OPEN) ws.send(payload)
broadcast(to, type) ==
    [ws \in Sockets |->
        IF ws \notin to THEN [standings |-> 0, errors |-> 0]
        ELSE IF type = "standings" THEN [standings |-> 1, errors |-> 0]
        ELSE [standings |-> 0, errors |-> 1]]

\* A poll that scores against a history of its own and keeps that one.
pollSucceedsFresh(contestId, rawData, roomsNow, readyNow) ==
    LET res == calculateScoresAndStreaks(rawData, contestId, EmptyMap)
    IN /\ userContestHistory' = res.history
       /\ outbox' = broadcast(recipients(contestId, roomsNow, readyNow), "standings")

\* pollAndBroadcast after getRawStandings has returned rawData: score a copy
\* against the process-wide history, then send the standings.
pollSucceeds(contestId, rawData, roomsNow, readyNow) ==
    LET res == calculateScoresAndStreaks(rawData, contestId, userContestHistory)
    IN /\ userContestHistory' = res.history
       /\ outbox' = broadcast(recipients(contestId, roomsNow, readyNow), "standings")

\* pollAndBroadcast(contestId) up to its await: a cached or local record is
\* scored and sent before any other handler runs, a remote one waits.
pollAndBroadcast(contestId, roomsNow, readyNow, op) ==
    LET g == getRawStandings(contestId, contestCache, leaderboards)
    IN IF g.how = "remote"
       THEN /\ polls[contestId] < MaxInFlight
            /\ polls' = [polls EXCEPT ![contestId] = @ + 1]
            /\ event' = [op |-> op, contestId |-> contestId, polls |-> 1, fetches |-> 1]
            /\ outbox' = NoMessages
            /\ UNCHANGED <<contestCache, userContestHistory>>
       ELSE /\ contestCache' = g.cache
            /\ pollSucceeds(contestId, g.data, roomsNow, readyNow)
            /\ event' = [op |-> op, contestId |-> contestId, polls |-> 1, fetches |-> 0]
            /\ UNCHANGED polls

\* wss.on('connection') with a contestId in the URL.
Connect(ws, contestId) ==
    /\ readyState[ws] = "CONNECTING"
    /\ LET sub == subscribe(ws, contestId)
           ready == [readyState EXCEPT ![ws] = "OPEN"]
       IN /\ readyState' = ready
          /\ socketContest' = [socketContest EXCEPT ![ws] = contestId]
          /\ rooms' = sub.rooms
          /\ intervals' = sub.intervals
          /\ activeTimers' = sub.activeTimers
          /\ IF sub.poll
             THEN pollAndBroadcast(contestId, sub.rooms, ready, "subscribe")
             ELSE /\ event' = [op |-> "subscribe", contestId |-> contestId,
                               polls |-> 0, fetches |-> 0]
                  /\ outbox' = NoMessages
                  /\ UNCHANGED <<polls, contestCache, userContestHistory>>
    /\ response' = NoResponse
    /\ UNCHANGED <<engineVars, leaderboards, aggVars>>

\* The peer starts closing or the connection breaks: readyState leaves OPEN
\* before the 'close' event is handled.
SocketClosing(ws) ==
    /\ readyState[ws] = "OPEN"
    /\ readyState' = [readyState EXCEPT ![ws] = "CLOSING"]
    /\ event' = [op |-> "closing", contestId |-> socketContest[ws], polls |-> 0, fetches |-> 0]
    /\ outbox' = NoMessages
    /\ response' = NoResponse
    /\ UNCHANGED <<engineVars, storeVars, rooms, intervals, activeTimers, socketContest,
                   polls, aggVars>>

\* ws.on('close'): unsubscribe(ws, contestId).
CloseEvent(ws) ==
    /\ readyState[ws] \in {"OPEN", "CLOSING"}
    /\ LET un == unsubscribe(ws, socketContest[ws])
       IN /\ rooms' = un.rooms
          /\ intervals' = un.intervals
          /\ activeTimers' = un.activeTimers
    /\ readyState' = [readyState EXCEPT ![ws] = "CLOSED"]
    /\ event' = [op |-> "unsubscribe", contestId |-> socketContest[ws], polls |-> 0, fetches |-> 0]
    /\ outbox' = NoMessages
    /\ response' = NoResponse
    /\ UNCHANGED <<engineVars, storeVars, socketContest, polls, aggVars>>

\* A callback of setInterval(() => pollAndBroadcast(contestId), POLL_INTERVAL_MS).
Tick(contestId) ==
    /\ activeTimers[contestId] > 0
    /\ pollAndBroadcast(contestId, rooms, readyState, "tick")
    /\ response' = NoResponse
    /\ UNCHANGED <<engineVars, leaderboards, rooms, intervals, activeTimers, readyState,
                   socketContest, aggVars>>

\* A poll that scores the fetched record itself, not a copy: the cache holds
\* the object whose rows the pass has replaced (standingsData.rows = ...).
PollFetchOkInPlace(contestId, result) ==
    /\ polls[contestId] > 0
    /\ polls' = [polls EXCEPT ![contestId] = @ - 1]
    /\ contestCache' = MapSet(contestCache, contestId,
                              calculateScoresAndStreaks(result, contestId, userContestHistory).data)
    /\ pollSucceeds(contestId, result, rooms, readyState)
    /\ event' = [op |-> "pollOk", contestId |-> contestId, polls |-> 0, fetches |-> 0]
    /\ response' = NoResponse
    /\ UNCHANGED <<engineVars, leaderboards, rooms, intervals, activeTimers, readyState,
                   socketContest, aggVars>>

\* fetchStandings of a waiting poll answers with status OK and this result.
PollFetchOk(contestId, result) ==
    /\ polls[contestId] > 0
    /\ polls' = [polls EXCEPT ![contestId] = @ - 1]
    /\ contestCache' = MapSet(contestCache, contestId, result)
    /\ pollSucceeds(contestId, result, rooms, readyState)
    /\ event' = [op |-> "pollOk", contestId |-> contestId, polls |-> 0, fetches |-> 0]
    /\ response' = NoResponse
    /\ UNCHANGED <<engineVars, leaderboards, rooms, intervals, activeTimers, readyState,
                   socketContest, aggVars>>

\* fetchStandings of a waiting poll throws, or answers with a status that is
\* not OK: the catch block sends the error message.
PollFetchFail(contestId) ==
    /\ polls[contestId] > 0
    /\ polls' = [polls EXCEPT ![contestId] = @ - 1]
    /\ outbox' = broadcast(recipients(contestId, rooms, readyState), "error")
    /\ event' = [op |-> "pollFailed", contestId |-> contestId, polls |-> 0, fetches |-> 0]
    /\ response' = NoResponse
    /\ UNCHANGED <<engineVars, storeVars, rooms, intervals, activeTimers, readyState,
                   socketContest, aggVars>>

\* What fetchStandings may answer for a contest in the hub's runs.
LiveRecords(contestId) ==
    {MakeData(contestId, <<>>)} \cup
    {MakeData(contestId, <<MakeRow("A", k)>>) : k \in StreakKinds}

NextHub ==
    \/ \E ws \in Sockets, c \in HubCids : Connect(ws, c)
    \/ \E ws \in Sockets : SocketClosing(ws)
    \/ \E ws \in Sockets : CloseEvent(ws)
    \/ \E c \in HubCids : Tick(c)
    \/ \E c \in HubCids : \E d \in LiveRecords(c) : PollFetchOk(c, d)
    \/ \E c \in HubCids : PollFetchFail(c)

SpecHub == Init /\ [][NextHub]_vars

\* The hub with its scheduling.  fetchStandings answers or fails (axios has
\* a timeout), and setInterval keeps calling back while the timer is set.
PollCompletes(contestId) ==
    \/ \E d \in LiveRecords(contestId) : PollFetchOk(contestId, d)
    \/ PollFetchFail(contestId)

\* A callback of the timer for a contest that is not cached: it fetches.
TickFetches(contestId) ==
    /\ ~MapHas(contestCache, contestId)
    /\ Tick(contestId)

\* What a callback of the timer leaves in event when the contest is cached.
tickFromCache(contestId) ==
    [op |-> "tick", contestId |-> contestId, polls |-> 1, fetches |-> 0]

\* A callback for a cached contest that follows another one sends the same
\* message and changes no variable, so its fairness is stated on what the
\* step leaves in event: while the timer is set and the contest is cached,
\* such callbacks happen again and again.
FairHub ==
    \A c \in HubCids :
        /\ WF_vars(PollCompletes(c))
        /\ WF_vars(TickFetches(c))
        /\ \/ []<>(~(activeTimers[c] > 0 /\ MapHas(contestCache, c)))
           \/ []<>(event = tickFromCache(c))

SpecHubFair == Init /\ [][NextHub]_vars /\ FairHub

(***************************************************************************)
(* Aggregation endpoint: the request, its fetches, its response.           *)
(*   agg      [state, ids, got, pending]: got[i] is the record of ids[i],  *)
(*            pending the indexes still waiting for fetchStandings         *)
(*   response [status, leaderboard, ids, raw]                              *)
(***************************************************************************)
MaxIds == 3

\* ids.map(id => getRawStandings(id)) from index i on: each call runs up to
\* its await, so a local record is cached before the next id is looked up.
RECURSIVE startFetches(_, _, _, _, _)
startFetches(ids, i, cache, got, pending) ==
    IF i > Len(ids) THEN [cache |-> cache, got |-> got, pending |-> pending]
    ELSE LET g == getRawStandings(ids[i], cache, leaderboards)
         IN startFetches(ids, i + 1, g.cache, Append(got, g.data),
                         IF g.how = "remote" THEN pending \cup {i} ELSE pending)

\* A handler that scores against the process-wide history instead of a map
\* of its own.
respondSharedHistory(ids, got) ==
    LET processed == processContests(sortContests(got), userContestHistory, EmptyMap)
        throws == \E i \in 1..Len(ids) :
                     MapHas(processed, ids[i]) /\ ~processed[ids[i]].hasRows
    IN [status |-> IF throws THEN 500 ELSE 200,
        leaderboard |-> IF throws THEN <<>>
                        ELSE sortLeaderboard(accumulate(<<>>, ids, processed)),
        ids |-> ids, raw |-> got]

\* The JSON the handler sends once every record is there.
respond(ids, got) ==
    LET r == multiContestStandings(ids, got)
    IN [status |-> r.status, leaderboard |-> r.leaderboard, ids |-> ids, raw |-> got]

failed(status, ids) == [status |-> status, leaderboard |-> <<>>, ids |-> ids, raw |-> <<>>]

\* GET /api/multiconteststandings?contestIds=ids
AggRequest(ids) ==
    /\ agg.state = "idle"
    /\ LET s == startFetches(ids, 1, contestCache, <<>>, {})
       IN /\ \A c \in Cids :
                 orphans[c] + polls[c] + Cardinality({i \in s.pending : ids[i] = c}) <= MaxInFlight
          /\ contestCache' = s.cache
          /\ IF s.pending = {}
             THEN /\ agg' = Idle
                  /\ response' = respond(ids, s.got)
             ELSE /\ agg' = [state |-> "fetching", ids |-> ids, got |-> s.got,
                             pending |-> s.pending]
                  /\ response' = NoResponse
          /\ event' = [op |-> "request", contestId |-> 0, polls |-> 0,
                       fetches |-> Cardinality(s.pending)]
    /\ outbox' = NoMessages
    /\ UNCHANGED <<engineVars, userContestHistory, leaderboards, hubVars, orphans>>

\* A handler without the early return: it answers 400 and goes on to fetch.
AggRequestNoIdsGoesOn ==
    /\ agg.state = "idle"
    /\ \E c \in Cids :
          /\ orphans[c] + polls[c] < MaxInFlight
          /\ orphans' = [orphans EXCEPT ![c] = @ + 1]
    /\ response' = failed(400, <<>>)
    /\ event' = [op |-> "badRequest", contestId |-> 0, polls |-> 0, fetches |-> 1]
    /\ outbox' = NoMessages
    /\ UNCHANGED <<engineVars, storeVars, hubVars, agg>>

\* GET /api/multiconteststandings without contestIds.
AggRequestNoIds ==
    /\ agg.state = "idle"
    /\ response' = failed(400, <<>>)
    /\ event' = [op |-> "badRequest", contestId |-> 0, polls |-> 0, fetches |-> 0]
    /\ outbox' = NoMessages
    /\ UNCHANGED <<engineVars, storeVars, hubVars, agg, orphans>>

\* fetchStandings for ids[i] answers with status OK: the record is cached;
\* when it was the last one, Promise.all resolves and the handler answers.
AggFetchOk(i, result) ==
    /\ agg.state = "fetching"
    /\ i \in agg.pending
    /\ result.id = agg.ids[i]
    /\ contestCache' = MapSet(contestCache, agg.ids[i], result)
    /\ LET got == [agg.got EXCEPT ![i] = result]
           pending == agg.pending \ {i}
       IN IF pending = {}
          THEN /\ agg' = Idle
               /\ response' = respond(agg.ids, got)
          ELSE /\ agg' = [agg EXCEPT !.got = got, !.pending = pending]
               /\ response' = NoResponse
    /\ event' = [op |-> "fetchOk", contestId |-> agg.ids[i], polls |-> 0, fetches |-> 0]
    /\ outbox' = NoMessages
    /\ UNCHANGED <<engineVars, userContestHistory, leaderboards, hubVars, orphans>>

\* A failed fetch that is dropped from the request (as Promise.allSettled
\* would): the request goes on with the records that arrived.
AggFetchFailSettled(i) ==
    /\ agg.state = "fetching"
    /\ i \in agg.pending
    /\ LET pending == agg.pending \ {i}
       IN IF pending = {}
          THEN /\ agg' = Idle
               /\ response' = respond(agg.ids, agg.got)
          ELSE /\ agg' = [agg EXCEPT !.pending = pending]
               /\ response' = NoResponse
    /\ event' = [op |-> "fetchFailed", contestId |-> agg.ids[i], polls |-> 0, fetches |-> 0]
    /\ outbox' = NoMessages
    /\ UNCHANGED <<engineVars, storeVars, hubVars, orphans>>

\* fetchStandings for ids[i] fails: Promise.all rejects, the catch answers
\* 500; the fetches still waiting go on without a request to report to.
AggFetchFail(i) ==
    /\ agg.state = "fetching"
    /\ i \in agg.pending
    /\ response' = failed(500, agg.ids)
    /\ orphans' = [c \in Cids |->
                      orphans[c] + Cardinality({k \in agg.pending \ {i} : agg.ids[k] = c})]
    /\ agg' = Idle
    /\ event' = [op |-> "fetchFailed", contestId |-> agg.ids[i], polls |-> 0, fetches |-> 0]
    /\ outbox' = NoMessages
    /\ UNCHANGED <<engineVars, storeVars, hubVars>>

\* A fetch left over by a failed request answers OK: only the cache changes.
OrphanFetchOk(contestId, result) ==
    /\ orphans[contestId] > 0
    /\ orphans' = [orphans EXCEPT ![contestId] = @ - 1]
    /\ contestCache' = MapSet(contestCache, contestId, result)
    /\ response' = NoResponse
    /\ event' = [op |-> "orphanOk", contestId |-> contestId, polls |-> 0, fetches |-> 0]
    /\ outbox' = NoMessages
    /\ UNCHANGED <<engineVars, userContestHistory, leaderboards, hubVars, agg>>

\* A fetch left over by a failed request fails: nothing is left of it.
OrphanFetchFail(contestId) ==
    /\ orphans[contestId] > 0
    /\ orphans' = [orphans EXCEPT ![contestId] = @ - 1]
    /\ response' = NoResponse
    /\ event' = [op |-> "orphanFailed", contestId |-> contestId, polls |-> 0, fetches |-> 0]
    /\ outbox' = NoMessages
    /\ UNCHANGED <<engineVars, storeVars, hubVars, agg>>

IdLists(cids, n) == UNION {[1..k -> cids] : k \in 1..n}

\* What fetchStandings may answer for a contest in the aggregation's runs.
AggRecords(contestId) ==
    {NoRows(contestId), MakeData(contestId, <<>>)} \cup
    {MakeData(contestId, <<MakeRow("A", k)>>) : k \in StreakKinds} \cup
    {MakeData(contestId, <<MakeRow("B", k)>>) : k \in {r \in StreakKinds : r.points > 0}}

\* Requests with their fetches in flight, over two contests.
MaxFetchIds == 2

NextAgg ==
    \/ \E ids \in IdLists(HubCids, MaxFetchIds) : AggRequest(ids)
    \/ AggRequestNoIds
    \/ \E i \in 1..MaxFetchIds : \E c \in HubCids : \E d \in LiveRecords(c) : AggFetchOk(i, d)
    \/ \E i \in 1..MaxFetchIds : AggFetchFail(i)
    \/ \E c \in HubCids : \E d \in LiveRecords(c) : OrphanFetchOk(c, d)
    \/ \E c \in HubCids : OrphanFetchFail(c)

SpecAgg == Init /\ [][NextAgg]_vars

\* Requests served from a cache that earlier fetches have filled: the
\* leaderboard as a function of the requested list and the cached records.
InitBoard ==
    /\ InitEngine
    /\ contestCache \in {f \in [Cids -> UNION {AggRecords(c) : c \in Cids}] :
                            \A c \in Cids : f[c] \in AggRecords(c)}
    /\ userContestHistory = EmptyMap
    /\ leaderboards = [c \in LocalCids |-> LeaderboardFile]
    /\ rooms = EmptyMap
    /\ intervals = {}
    /\ activeTimers = [c \in Cids |-> 0]
    /\ readyState = [s \in Sockets |-> "CONNECTING"]
    /\ socketContest = [s \in Sockets |-> 0]
    /\ polls = [c \in Cids |-> 0]
    /\ agg = Idle
    /\ orphans = [c \in Cids |-> 0]
    /\ response = NoResponse
    /\ event = NoEvent
    /\ outbox = NoMessages

NextBoard == \E ids \in IdLists(Cids, MaxIds) : AggRequest(ids)

SpecBoard == InitBoard /\ [][NextBoard]_vars

\* Requests over two contests whose cached records hold up to two rows of
\* every kind: totals, penalties and the order of the leaderboard.
TotalsCids == {10, 20}

\* Rows that tie on score and differ in penalty, and rows that do not tie.
TotalsKinds ==
    { [rank |-> 1, points |-> 1, penalty |-> 0, problemResults |-> <<>>],
      [rank |-> 1, points |-> 1, penalty |-> 1, problemResults |-> <<>>],
      [rank |-> 2, points |-> 1, penalty |-> 0, problemResults |-> <<>>],
      [rank |-> 2, points |-> 0, penalty |-> 0, problemResults |-> Unsolved] }

InitTotals ==
    /\ InitEngine
    /\ contestCache \in {f \in [TotalsCids -> UNION {Records(c, Handles, TotalsKinds, MaxRows) :
                                                         c \in TotalsCids}] :
                            \A c \in TotalsCids : f[c] \in Records(c, Handles, TotalsKinds, MaxRows)}
    /\ userContestHistory = EmptyMap
    /\ leaderboards = [c \in LocalCids |-> LeaderboardFile]
    /\ rooms = EmptyMap
    /\ intervals = {}
    /\ activeTimers = [c \in Cids |-> 0]
    /\ readyState = [s \in Sockets |-> "CONNECTING"]
    /\ socketContest = [s \in Sockets |-> 0]
    /\ polls = [c \in Cids |-> 0]
    /\ agg = Idle
    /\ orphans = [c \in Cids |-> 0]
    /\ response = NoResponse
    /\ event = NoEvent
    /\ outbox = NoMessages

NextTotals == \E ids \in IdLists(TotalsCids, MaxFetchIds) : AggRequest(ids)

SpecTotals == InitTotals /\ [][NextTotals]_vars

\* Requests for the contests served from the leaderboard files.
NextLocal == \E ids \in IdLists(LocalCids, MaxFetchIds) : AggRequest(ids)

SpecLocal == Init /\ [][NextLocal]_vars

\* Live polls over three contests.  A socket subscribes to one contest and
\* the model has NumSockets of them, so the start is the state a listener of
\* one contest has left behind: its contest polled once, cached and scored,
\* its room and timer gone.
InitLive ==
    /\ InitEngine
    /\ \E c \in Cids : \E d \in LiveRecords(c) :
          /\ contestCache = MapSet(EmptyMap, c, d)
          /\ userContestHistory = calculateScoresAndStreaks(d, c, EmptyMap).history
    /\ leaderboards = [c \in LocalCids |-> LeaderboardFile]
    /\ rooms = EmptyMap
    /\ intervals = {}
    /\ activeTimers = [c \in Cids |-> 0]
    /\ readyState = [s \in Sockets |-> "CONNECTING"]
    /\ socketContest = [s \in Sockets |-> 0]
    /\ polls = [c \in Cids |-> 0]
    /\ agg = Idle
    /\ orphans = [c \in Cids |-> 0]
    /\ response = NoResponse
    /\ event = NoEvent
    /\ outbox = NoMessages

NextLive ==
    \/ \E ws \in Sockets, c \in Cids : Connect(ws, c)
    \/ \E ws \in Sockets : CloseEvent(ws)
    \/ \E c \in Cids : Tick(c)
    \/ \E c \in Cids : \E d \in LiveRecords(c) : PollFetchOk(c, d)
    \/ \E c \in Cids : PollFetchFail(c)

SpecLive == InitLive /\ [][NextLive]_vars

\* The hub and the aggregation endpoint of one process, on one contest: live
\* polls and requests share contestCache and race on its fetches.
ServerCids == {10}

NextServer ==
    \/ \E ws \in Sockets, c \in ServerCids : Connect(ws, c)
    \/ \E ws \in Sockets : SocketClosing(ws)
    \/ \E ws \in Sockets : CloseEvent(ws)
    \/ \E c \in ServerCids : Tick(c)
    \/ \E c \in ServerCids : \E d \in LiveRecords(c) : PollFetchOk(c, d)
    \/ \E c \in ServerCids : PollFetchFail(c)
    \/ \E ids \in IdLists(ServerCids, MaxFetchIds) : AggRequest(ids)
    \/ AggRequestNoIds
    \/ \E i \in 1..MaxFetchIds : \E c \in ServerCids : \E d \in LiveRecords(c) : AggFetchOk(i, d)
    \/ \E i \in 1..MaxFetchIds : AggFetchFail(i)
    \/ \E c \in ServerCids : \E d \in LiveRecords(c) : OrphanFetchOk(c, d)
    \/ \E c \in ServerCids : OrphanFetchFail(c)

SpecServer == Init /\ [][NextServer]_vars

\* Live polls of one contest beside requests over two: the process-wide
\* history holds entries the requests' own histories do not.
NextMixed ==
    \/ \E ws \in Sockets, c \in ServerCids : Connect(ws, c)
    \/ \E ws \in Sockets : CloseEvent(ws)
    \/ \E c \in ServerCids : Tick(c)
    \/ \E c \in ServerCids : \E d \in LiveRecords(c) : PollFetchOk(c, d)
    \/ \E c \in ServerCids : PollFetchFail(c)
    \/ \E ids \in IdLists(HubCids, MaxFetchIds) : AggRequest(ids)
    \/ \E i \in 1..MaxFetchIds : \E c \in HubCids : \E d \in LiveRecords(c) : AggFetchOk(i, d)

SpecMixed == Init /\ [][NextMixed]_vars

(***************************************************************************)
(* Properties of the scoring engine.                                       *)
(***************************************************************************)
entriesOf(history, contestId) == {i \in 1..Len(history) : history[i].contestId = contestId}

\* C3: a call with the arguments of the call before it (same raw record,
\* same contest identifier, the history the first call left) returns the
\* same record and leaves the history as the first call left it.
C3_Idempotent ==
    [][repeated' => (lastResult' = lastResult /\ userHistory' = userHistory)]_vars

\* A repeated call on a record with rows, with a handle absent from them.
C3_Witness ==
    /\ repeated
    /\ lastCall.standingsData.hasRows
    /\ Len(lastResult.rows) >= 1
    /\ \E h \in DOMAIN userHistory :
          /\ h \notin {lastResult.rows[i].handle : i \in 1..Len(lastResult.rows)}
          /\ Len(userHistory[h]) >= 2

\* C4: a history list never holds two entries of one contest, and after a
\* pass every handle of the scored rows holds exactly one entry of that
\* contest, with the raw score and the input rank of this pass.
C4_OneEntryPerContest ==
    /\ \A h \in DOMAIN userHistory : \A c \in ScoreCids :
          Cardinality(entriesOf(userHistory[h], c)) <= 1
    /\ (lastCall.called /\ lastCall.standingsData.hasRows) =>
          \A i \in 1..Len(lastCall.standingsData.rows) :
             LET row == lastCall.standingsData.rows[i]
                 out == CHOOSE r \in Range(lastResult.rows) : r.handle = row.handle
             IN /\ MapHas(userHistory, row.handle)
                /\ \E k \in 1..Len(userHistory[row.handle]) :
                      /\ entriesOf(userHistory[row.handle], lastCall.contestId) = {k}
                      /\ userHistory[row.handle][k].score = out.rawScore
                      /\ userHistory[row.handle][k].rank = row.rank

\* A contest scored a second time with another score for the same handle.
C4_Witness ==
    /\ lastCall.called
    /\ ~repeated
    /\ \E h \in DOMAIN userHistory :
          /\ Len(userHistory[h]) = 2
          /\ \E k \in 1..2 :
                /\ userHistory[h][k].contestId = lastCall.contestId
                /\ userHistory[h][k].score = 0
                /\ userHistory[h][k].rank # NoRank
    /\ \E h \in DOMAIN userHistory : \E k \in 1..Len(userHistory[h]) :
          userHistory[h][k].rank = NoRank

expectedMultiplier(streak) ==
    CASE streak \in {0, 1} -> 100
      [] streak = 2 -> 105
      [] streak = 3 -> 110
      [] OTHER -> 115

\* C5: every scored row has customScore = rawScore x m(streak) and
\* streakBonus = customScore - rawScore, where m is 1.00 for streak 0 or 1,
\* 1.05 for 2, 1.10 for 3 and 1.15 from 4 on (non-decreasing in the streak).
C5_StreakMultiplier ==
    /\ \A s \in 0..(NumStreakContests + 1) :
          expectedMultiplier(s) <= expectedMultiplier(s + 1)
    /\ lastResult.hasRows =>
          \A i \in 1..Len(lastResult.rows) :
             LET row == lastResult.rows[i] IN
             /\ row.customScore = row.rawScore * expectedMultiplier(row.streak)
             /\ row.streakBonus = row.customScore - row.rawScore * 100

\* A row scored with a streak of four contests.
C5_Witness ==
    /\ lastResult.hasRows
    /\ \E i \in 1..Len(lastResult.rows) :
          /\ lastResult.rows[i].streak >= 4
          /\ lastResult.rows[i].rawScore > 0
          /\ lastResult.rows[i].streakBonus > 0

sameKey(a, b) == a.customScore = b.customScore /\ a.penalty = b.penalty

\* C6: the returned rows are ordered by customScore descending, then
\* penalty ascending; rows with equal (customScore, penalty) share a rank; a
\* row that differs from the row before it has rank 1 + the number of rows
\* before it; so ranks lie in 1..n and the first row has rank 1.
C6_Ranks ==
    lastResult.hasRows =>
       LET rows == lastResult.rows
           n == Len(rows)
       IN /\ \A i \in 1..(n - 1) :
                \/ rows[i].customScore > rows[i + 1].customScore
                \/ /\ rows[i].customScore = rows[i + 1].customScore
                   /\ rows[i].penalty <= rows[i + 1].penalty
          /\ \A i, j \in 1..n : sameKey(rows[i], rows[j]) => rows[i].rank = rows[j].rank
          /\ \A i \in 2..n : ~sameKey(rows[i], rows[i - 1]) => rows[i].rank = 1 + (i - 1)
          /\ \A i \in 1..n : rows[i].rank \in 1..n
          /\ n >= 1 => rows[1].rank = 1

\* Three rows, the first two tied, the third behind them with rank 3.
C6_Witness ==
    /\ lastResult.hasRows
    /\ Len(lastResult.rows) = 3
    /\ sameKey(lastResult.rows[1], lastResult.rows[2])
    /\ ~sameKey(lastResult.rows[2], lastResult.rows[3])
    /\ lastResult.rows[3].rank = 3

(***************************************************************************)
(* Properties of the aggregation endpoint.                                 *)
(***************************************************************************)
Distinct(ids) == \A i, j \in 1..Len(ids) : i # j => ids[i] # ids[j]

Reorderings(ids) ==
    {[i \in 1..Len(ids) |-> ids[p[i]]] :
        p \in {q \in [1..Len(ids) -> 1..Len(ids)] : \A i, j \in 1..Len(ids) : i # j => q[i] # q[j]}}

\* The leaderboard the endpoint answers for ids when every record is cached.
leaderboardFor(ids) ==
    multiContestStandings(ids, [i \in 1..Len(ids) |-> contestCache[ids[i]]]).leaderboard

\* C1: for a list of distinct contest identifiers, every permutation of the
\* list gets the same leaderboard, entry for entry, ties included.
C1_SameForPermutations ==
    (response.status = 200 /\ Distinct(response.ids)) =>
        \A ids \in Reorderings(response.ids) : leaderboardFor(ids) = response.leaderboard

entryOf(leaderboard, handle) ==
    leaderboard[CHOOSE i \in 1..Len(leaderboard) : leaderboard[i].handle = handle]

onBoard(leaderboard, handle) == \E i \in 1..Len(leaderboard) : leaderboard[i].handle = handle

rawScoreIn(entry, contestId) ==
    entry.contests[contestId].baseScore + entry.contests[contestId].firstAcBonus

\* A handle scored in the first and the third of the three contests, and
\* with raw score 0 in, or absent from the rows of, the second.
skipsSecond(entry) ==
    /\ {10, 30} \subseteq DOMAIN entry.contests
    /\ rawScoreIn(entry, 10) > 0
    /\ rawScoreIn(entry, 30) > 0
    /\ (20 \in DOMAIN entry.contests => rawScoreIn(entry, 20) = 0)

threeContests == response.status = 200 /\ Range(response.ids) = {10, 20, 30}

\* C2 as claimed: over three contests, a handle with a positive raw score in
\* the first and the third and none in the second has streak 0 at the third.
C2_StreakZeroAtThird ==
    threeContests =>
        \A i \in 1..Len(response.leaderboard) :
            skipsSecond(response.leaderboard[i]) =>
                response.leaderboard[i].contests[30].streak = 0

\* C2 as the code has it: such a handle has streak 1 at the third contest;
\* the streak restarts there and the first contest no longer counts.
C2_StreakRestartsAtThird ==
    threeContests =>
        \A i \in 1..Len(response.leaderboard) :
            skipsSecond(response.leaderboard[i]) =>
                /\ response.leaderboard[i].contests[30].streak = 1
                /\ response.leaderboard[i].contests[30].streakBonus = 0

\* A handle absent from the rows of the second contest, and one with a row
\* of raw score 0 in it.
C2_Witness ==
    /\ threeContests
    /\ \E i \in 1..Len(response.leaderboard) :
          /\ skipsSecond(response.leaderboard[i])
          /\ 20 \notin DOMAIN response.leaderboard[i].contests
          /\ contestCache[20].hasRows
          /\ contestCache[20].rows # <<>>

\* C10: the step in which a fetch of the request fails answers 500 with no
\* leaderboard, and a leaderboard is only ever answered from one record per
\* requested identifier, each of them fetched; for distinct identifiers
\* every row of every record is on it.
C10_NoPartialLeaderboard ==
    /\ event.op = "fetchFailed" =>
          (response.status = 500 /\ response.leaderboard = <<>> /\ agg.state = "idle")
    /\ response.status = 200 =>
          /\ Len(response.raw) = Len(response.ids)
          /\ \A i \in 1..Len(response.ids) :
                /\ response.raw[i].id = response.ids[i]
                /\ MapHas(contestCache, response.ids[i])
                /\ \A k \in 1..Len(response.raw[i].rows) :
                      Distinct(response.ids) =>
                      /\ onBoard(response.leaderboard, response.raw[i].rows[k].handle)
                      /\ response.ids[i] \in
                            DOMAIN entryOf(response.leaderboard,
                                           response.raw[i].rows[k].handle).contests

\* A request for two contests whose first fetch succeeded and whose second
\* failed.
C10_Witness ==
    /\ event.op = "fetchFailed"
    /\ response.status = 500
    /\ Len(response.ids) = 2
    /\ \E c \in Range(response.ids) : c # event.contestId /\ MapHas(contestCache, c)

(***************************************************************************)
(* Properties of the subscription hub.                                     *)
(***************************************************************************)
Silent == \A ws \in Sockets : outbox[ws] = [standings |-> 0, errors |-> 0]

\* C7: while a contest has no listener set (its last listener has
\* unsubscribed and nobody has subscribed since) it has no timer and no
\* handler acting for it sends a message, a poll that was in flight at the
\* unsubscribe included.
C7_QuietWithoutListeners ==
    \A c \in HubCids :
        ~MapHas(rooms, c) =>
            /\ c \notin intervals
            /\ activeTimers[c] = 0
            /\ event.contestId = c => Silent

\* A poll that was in flight when the last listener left has just completed.
C7_Witness ==
    \E c \in HubCids :
        /\ ~MapHas(rooms, c)
        /\ event.op \in {"pollOk", "pollFailed"}
        /\ event.contestId = c
        /\ \E ws \in Sockets : socketContest[ws] = c /\ readyState[ws] = "CLOSED"

\* C8: the subscribe of a socket to a contest without a timer creates one
\* timer and starts one pollAndBroadcast; the subscribe to a contest that has
\* a timer adds the socket and starts no timer and no poll.
C8_FirstSubscribeStartsOnce ==
    [][\A ws \in Sockets :
          (readyState[ws] = "CONNECTING" /\ readyState'[ws] = "OPEN") =>
             LET c == socketContest'[ws]
                 before == IF MapHas(rooms, c) THEN rooms[c] ELSE {}
             IN /\ MapHas(rooms', c)
                /\ rooms'[c] = before \cup {ws}
                /\ c \in intervals'
                /\ activeTimers'[c] = 1
                /\ \A d \in HubCids \ {c} : activeTimers'[d] = activeTimers[d]
                /\ IF c \in intervals
                   THEN /\ activeTimers' = activeTimers
                        /\ event'.polls = 0
                        /\ polls' = polls
                        /\ \A s \in Sockets : outbox'[s] = [standings |-> 0, errors |-> 0]
                   ELSE /\ activeTimers[c] = 0
                        /\ event'.polls = 1
      ]_vars

\* The second listener of a contest has just subscribed.
C8_Witness ==
    /\ event.op = "subscribe"
    /\ event.polls = 0
    /\ MapHas(rooms, event.contestId)
    /\ Cardinality(rooms[event.contestId]) = 2

C11_MissingParameter ==
    [][event'.op = "badRequest" =>
          /\ response'.status = 400
          /\ response'.leaderboard = <<>>
          /\ event'.fetches = 0
          /\ contestCache' = contestCache
          /\ userContestHistory' = userContestHistory
          /\ polls' = polls
          /\ orphans' = orphans
          /\ agg' = agg
      ]_vars

\* A bad request answered by a process whose cache and history are filled.
C11_Witness ==
    /\ event.op = "badRequest"
    /\ response.status = 400
    /\ contestCache # EmptyMap
    /\ userContestHistory # EmptyMap

\* The requested contests whose record has an empty row list or none.
degenerate(ids, raw) ==
    {ids[i] : i \in {k \in 1..Len(ids) : ~raw[k].hasRows \/ raw[k].rows = <<>>}}

\* C12: a request that includes a contest whose record has an empty row list
\* or no row list is answered 200, and that contest is in no entry of the
\* leaderboard.
C12_DegenerateIsNoError ==
    (event.op = "request" /\ response.status # 0
        /\ degenerate(response.ids, response.raw) # {}) =>
        /\ response.status = 200
        /\ \A i \in 1..Len(response.leaderboard) :
              DOMAIN response.leaderboard[i].contests
                 \cap degenerate(response.ids, response.raw) = {}

\* The handles in the rows of the records a request was answered from.
handlesIn(raw) == UNION {{raw[i].rows[k].handle : k \in 1..Len(raw[i].rows)} : i \in 1..Len(raw)}

\* C13: the leaderboard of a request answered 200 holds every handle of the
\* rows of the requested contests once and no other handle, by total score
\* descending and, among equal scores, total penalty ascending.
C13_OneEntryPerHandleSorted ==
    (event.op = "request" /\ response.status = 200) =>
        LET lb == response.leaderboard
        IN /\ \A i, j \in 1..Len(lb) : i # j => lb[i].handle # lb[j].handle
           /\ {lb[i].handle : i \in 1..Len(lb)} = handlesIn(response.raw)
           /\ \A i, j \in 1..Len(lb) :
                 i < j => \/ lb[i].score > lb[j].score
                          \/ (lb[i].score = lb[j].score /\ lb[i].penalty <= lb[j].penalty)

\* Two handles with equal totals placed by their penalties, the first of
\* them with rows in both contests.
C13_Witness ==
    /\ event.op = "request"
    /\ response.status = 200
    /\ Len(response.leaderboard) = 2
    /\ response.leaderboard[1].score = response.leaderboard[2].score
    /\ response.leaderboard[1].penalty < response.leaderboard[2].penalty
    /\ DOMAIN response.leaderboard[1].contests = {10, 20}

\* C14: once contest c is cached (a fetch for it has succeeded), the record
\* getRawStandings returns for c, which is the cached one, stays the same,
\* and no handler that calls getRawStandings(c) calls fetchStandings for it.
C14_CachedForLife ==
    [][\A c \in Cids :
          MapHas(contestCache, c) =>
             /\ MapHas(contestCache', c)
             /\ contestCache'[c] = contestCache[c]
             /\ (event'.contestId = c /\ event'.op \in {"tick", "subscribe"}) =>
                   event'.fetches = 0
             /\ event'.op = "request" => \A i \in agg'.pending : agg'.ids[i] # c
      ]_vars

\* The handler that has just run broadcast for contest c, and with what.
broadcastOf(c) ==
    IF event.contestId # c THEN "none"
    ELSE IF event.op = "pollFailed" THEN "error"
    ELSE IF event.op = "pollOk" THEN "standings"
    ELSE IF event.op \in {"tick", "subscribe"} /\ event.polls = 1 /\ event.fetches = 0
         THEN "standings"
    ELSE "none"

\* C15: in a broadcast for contest c every socket registered for c whose
\* readyState is OPEN is sent the payload once, and every other socket,
\* registered or not, is sent nothing.
C15_BroadcastReachesOpen ==
    \A c \in HubCids :
        broadcastOf(c) # "none" =>
            \A ws \in Sockets :
                outbox[ws] =
                    IF MapHas(rooms, c) /\ ws \in rooms[c] /\ readyState[ws] = "OPEN"
                    THEN IF broadcastOf(c) = "standings"
                         THEN [standings |-> 1, errors |-> 0]
                         ELSE [standings |-> 0, errors |-> 1]
                    ELSE [standings |-> 0, errors |-> 0]

\* A standings broadcast to a room of two: one socket closing, one OPEN.
C15_Witness ==
    /\ event.op = "pollOk"
    /\ MapHas(rooms, event.contestId)
    /\ \E ws, other \in rooms[event.contestId] :
          /\ readyState[ws] = "CLOSING"
          /\ outbox[ws].standings = 0
          /\ readyState[other] = "OPEN"
          /\ outbox[other].standings = 1

(***************************************************************************)
(* Properties of the scoring policies.                                     *)
(***************************************************************************)
\* The input rank of a handle in the record the latest call was given.
inputRank(handle) ==
    LET rows == lastCall.standingsData.rows
    IN rows[CHOOSE i \in 1..Len(rows) : rows[i].handle = handle].rank

\* C16: in contest 631207 a row of input rank r has baseScore 31 - r when
\* r <= 30 and 0 when r >= 31, no first-accept bonus, and rawScore = baseScore.
C16_RankedBonus ==
    (lastCall.called /\ lastCall.contestId = Codemon1) =>
        \A i \in 1..Len(lastResult.rows) :
            LET row == lastResult.rows[i]
                r == inputRank(row.handle)
            IN /\ r <= 30 => row.baseScore = (31 - r) * Scale
               /\ r >= 31 => row.baseScore = 0
               /\ row.firstAcBonus = 0
               /\ row.rawScore = row.baseScore

\* The last rank that scores: rank 30 gets 1 point.
C16_Witness ==
    /\ lastCall.called
    /\ lastCall.contestId = Codemon1
    /\ Len(lastResult.rows) = 1
    /\ inputRank(lastResult.rows[1].handle) = 30
    /\ lastResult.rows[1].baseScore = Scale

\* The entry of a handle that scored whole points in contest 631207 only,
\* at streak 1 and multiplier 1.00.
firstContestEntry(handle, points, rank) ==
    [handle |-> handle, score |-> points * Scale * MultScale, penalty |-> 0,
     contests |-> MapSet(EmptyMap, Codemon1,
                         [score |-> points * Scale * MultScale, rank |-> rank, streak |-> 1,
                          baseScore |-> points * Scale, firstAcBonus |-> 0,
                          streakBonus |-> 0])]

\* C17: with A, B, C at ranks 1, 2, 3 in the file of contest 631207, the
\* request contestIds=631207 is answered 200 with the leaderboard A 30,
\* B 29, C 28, each at streak 1 with no streak bonus.
C17_EndToEnd ==
    (event.op = "request" /\ response.ids = <<Codemon1>>) =>
        /\ response.status = 200
        /\ response.leaderboard = <<firstContestEntry("A", 30, 1),
                                    firstContestEntry("B", 29, 2),
                                    firstContestEntry("C", 28, 3)>>

\* The request contestIds=631207 has been answered from the file.
C17_Witness ==
    /\ event.op = "request"
    /\ response.ids = <<Codemon1>>
    /\ Len(response.leaderboard) = 3
    /\ leaderboards[Codemon1] = LeaderboardFile
    /\ MapHas(contestCache, Codemon1)

\* The streak at contest c over a history as a set of entries: the contests
\* up to c from which every entry up to c has a positive score.
chronologicalStreak(history, c) ==
    LET entries == Range(history)
    IN Cardinality({e.contestId : e \in
          {d \in entries :
              /\ d.contestId <= c
              /\ \A f \in entries :
                    (d.contestId <= f.contestId /\ f.contestId <= c) => f.score > 0}})

\* C18: the streak of a row of contest c is the length of the run of
\* positive scores that ends at c in the handle's history taken in the
\* order of the contest identifiers, whatever the order of insertion; it is
\* 0 exactly when the row's raw score is 0.
C18_StreakIsChronologicalRun ==
    (lastCall.called /\ lastCall.standingsData.hasRows) =>
        \A i \in 1..Len(lastResult.rows) :
            LET row == lastResult.rows[i]
            IN /\ row.streak = chronologicalStreak(userHistory[row.handle], lastCall.contestId)
               /\ row.streak = 0 <=> row.rawScore = 0

\* A pass for contest 30 run when the history already holds contest 40:
\* the streak is 3, over 10, 20 and 30.
C18_Witness ==
    /\ lastCall.called
    /\ lastCall.contestId = 30
    /\ Len(lastResult.rows) = 1
    /\ lastResult.rows[1].streak = 3
    /\ \E k \in 1..Len(userHistory[lastResult.rows[1].handle]) :
          /\ userHistory[lastResult.rows[1].handle][k].contestId = 40
          /\ userHistory[lastResult.rows[1].handle][k].score > 0

(***************************************************************************)
(* Properties of the history.                                              *)
(***************************************************************************)
handlesOf(rows) == {rows[i].handle : i \in 1..Len(rows)}

\* C19: a pass for contest c over a record with a row list leaves every
\* handle that was in the history and is not in the rows with an entry for
\* c: a handle that had none gets one entry with score 0 and no rank after
\* its other entries, which are unchanged; a handle that had one keeps its
\* history; so after the pass every handle of the history has an entry for c.
C19_AbsentGetZeroEntry ==
    [][(lastCall'.called /\ lastCall'.standingsData.hasRows) =>
          LET c == lastCall'.contestId
              present == handlesOf(lastCall'.standingsData.rows)
          IN /\ \A h \in (DOMAIN userHistory) \ present :
                   /\ h \in DOMAIN userHistory'
                   /\ IF \E k \in 1..Len(userHistory[h]) : userHistory[h][k].contestId = c
                      THEN userHistory'[h] = userHistory[h]
                      ELSE /\ Len(userHistory'[h]) = Len(userHistory[h]) + 1
                           /\ SubSeq(userHistory'[h], 1, Len(userHistory[h])) = userHistory[h]
                           /\ userHistory'[h][Len(userHistory'[h])] =
                                 [contestId |-> c, score |-> 0, rank |-> NoRank]
             /\ \A h \in DOMAIN userHistory' :
                   \E k \in 1..Len(userHistory'[h]) : userHistory'[h][k].contestId = c
      ]_vars

\* A handle that scored in another contest, is absent from the rows of the
\* latest pass and holds the zero entry of that contest.
C19_Witness ==
    /\ lastCall.called
    /\ lastCall.standingsData.hasRows
    /\ \E h \in (DOMAIN userHistory) \ handlesOf(lastCall.standingsData.rows) :
          /\ \E k \in 1..Len(userHistory[h]) :
                userHistory[h][k] = [contestId |-> lastCall.contestId, score |-> 0,
                                     rank |-> NoRank]
          /\ \E k \in 1..Len(userHistory[h]) : userHistory[h][k].score > 0

solversOf(rows, p) ==
    {i \in 1..Len(rows) : p <= Len(rows[i].problemResults)
                          /\ rows[i].problemResults[p].points > 0}

holdersOf(rows, p) ==
    {i \in solversOf(rows, p) :
        \A j \in solversOf(rows, p) :
            LET ti == rows[i].problemResults[p].bestSubmissionTimeSeconds
                tj == rows[j].problemResults[p].bestSubmissionTimeSeconds
            IN ti < tj \/ (ti = tj /\ i <= j)}

\* C21: under the generic policy every problem has at most one holder, the
\* earliest row among the solvers with the smallest time; every row is
\* returned with firstAcBonus 2 for each problem it holds, and a row with
\* points 0 with baseScore 0 and firstAcBonus 0.
C21_FirstAccept ==
    (lastCall.called /\ lastCall.standingsData.hasRows /\ lastCall.contestId \notin LocalCids) =>
        LET rows == lastCall.standingsData.rows
            out == lastResult.rows
        IN /\ \A p \in 1..lastCall.standingsData.problems :
                 /\ Cardinality(holdersOf(rows, p)) <= 1
                 /\ solversOf(rows, p) # {} => Cardinality(holdersOf(rows, p)) = 1
           /\ \A i \in 1..Len(rows) :
                 \E k \in 1..Len(out) :
                    /\ out[k].handle = rows[i].handle
                    /\ out[k].firstAcBonus =
                          IF rows[i].points > 0
                          THEN 2 * Scale * Cardinality({p \in 1..lastCall.standingsData.problems :
                                                           i \in holdersOf(rows, p)})
                          ELSE 0
                    /\ rows[i].points = 0 => out[k].baseScore = 0

\* Two rows solved the first problem at the same time and the first row
\* holds it, and the second problem too.
C21_Witness ==
    /\ lastCall.called
    /\ lastCall.standingsData.problems = 2
    /\ Len(lastCall.standingsData.rows) = 2
    /\ lastCall.standingsData.rows[1].problemResults[1].points > 0
    /\ lastCall.standingsData.rows[2].problemResults[1].points > 0
    /\ lastCall.standingsData.rows[1].problemResults[1].bestSubmissionTimeSeconds =
          lastCall.standingsData.rows[2].problemResults[1].bestSubmissionTimeSeconds
    /\ \E k \in 1..Len(lastResult.rows) :
          /\ lastResult.rows[k].handle = lastCall.standingsData.rows[1].handle
          /\ lastResult.rows[k].firstAcBonus = 4 * Scale
    /\ \E k \in 1..Len(lastResult.rows) :
          /\ lastResult.rows[k].handle = lastCall.standingsData.rows[2].handle
          /\ lastResult.rows[k].firstAcBonus = 0

(***************************************************************************)
(* The live path against the aggregation.                                  *)
(***************************************************************************)
\* The ids of a set of contests in ascending order.
RECURSIVE ascending(_)
ascending(S) ==
    IF S = {} THEN <<>>
    ELSE LET m == CHOOSE x \in S : \A y \in S : x <= y
         IN <<m>> \o ascending(S \ {m})

\* What the rows of a scored record say of each handle.
scoresOf(rows) ==
    {[handle |-> rows[i].handle, streak |-> rows[i].streak,
      customScore |-> rows[i].customScore, rank |-> rows[i].rank] : i \in 1..Len(rows)}

\* The record a live poll of c broadcasts from this state when c is cached.
\* A poll of c that has just run computed the same record: a pass repeated
\* on the history it left returns what it returned.
liveRecord(c) == calculateScoresAndStreaks(contestCache[c], c, userContestHistory).data

\* The record of c in an aggregation over the contests of S.
aggregatedRecord(S, c) ==
    LET ids == ascending(S)
    IN processContests([i \in 1..Len(ids) |-> contestCache[ids[i]]], EmptyMap, EmptyMap)[c]

\* C22: when a poll of contest c has run on a cached record, so after all
\* the contests of the cache have been polled at least once, with no poll
\* in flight, its rows carry the streaks, custom scores and ranks that an
\* aggregation over the cached contests reports for c.
C22_LiveAgreesWithAggregation ==
    (/\ event.op = "tick"
     /\ event.fetches = 0
     /\ event.polls = 1
     /\ \A c \in Cids : polls[c] = 0) =>
        scoresOf(liveRecord(event.contestId).rows)
            = scoresOf(aggregatedRecord(DOMAIN contestCache, event.contestId).rows)

contestsOf(history) == {history[k].contestId : k \in 1..Len(history)}

\* C23: no step of the hub removes a handle from the process-wide history
\* or removes the entry of a handle for a contest.
C23_HistoryOnlyGrows ==
    [][\A h \in DOMAIN userContestHistory :
          /\ h \in DOMAIN userContestHistory'
          /\ contestsOf(userContestHistory[h]) \subseteq contestsOf(userContestHistory'[h])
      ]_vars

\* The last listener has left and the history holds a handle's entries for
\* all three contests.
C23_Witness ==
    /\ event.op = "unsubscribe"
    /\ rooms = EmptyMap
    /\ \E h \in DOMAIN userContestHistory : contestsOf(userContestHistory[h]) = Cids

\* C24: a step of the hub for contest c (subscribe, unsubscribe, timer tick,
\* the completion of a poll) leaves the listener set and the timer of every
\* other contest as they were and sends nothing to a socket that is not
\* registered for c.
C24_OtherContestsUntouched ==
    [][event'.op \in {"subscribe", "unsubscribe", "tick", "pollOk", "pollFailed"} =>
          LET c == event'.contestId
          IN /\ \A d \in Cids \ {c} :
                   /\ MapHas(rooms', d) = MapHas(rooms, d)
                   /\ MapHas(rooms, d) => rooms'[d] = rooms[d]
                   /\ (d \in intervals') = (d \in intervals)
                   /\ activeTimers'[d] = activeTimers[d]
             /\ \A ws \in Sockets :
                   outbox'[ws] # [standings |-> 0, errors |-> 0] =>
                      (MapHas(rooms', c) /\ ws \in rooms'[c])
      ]_vars

\* A standings broadcast for one contest while an OPEN socket listens to
\* another: the first contest's socket got it, the other socket nothing.
C24_Witness ==
    /\ event.op = "pollOk"
    /\ \E c, d \in HubCids :
          /\ c # d
          /\ event.contestId = c
          /\ MapHas(rooms, c)
          /\ MapHas(rooms, d)
          /\ \E ws \in rooms[c] : outbox[ws].standings = 1
          /\ \E ws \in rooms[d] : readyState[ws] = "OPEN" /\ outbox[ws].standings = 0

\* C25: for every contest a timer exists exactly when its listener set
\* exists, a listener set that exists is not empty, and the contest never
\* has more than one timer running.
C25_TimerIffListeners ==
    \A c \in Cids :
        /\ (c \in intervals) <=> MapHas(rooms, c)
        /\ MapHas(rooms, c) => rooms[c] # {}
        /\ activeTimers[c] = (IF c \in intervals THEN 1 ELSE 0)

\* One of two listeners of a contest has unsubscribed: the room and the
\* timer stay.
C25_Witness ==
    /\ event.op = "unsubscribe"
    /\ MapHas(rooms, event.contestId)
    /\ Cardinality(rooms[event.contestId]) = 1
    /\ activeTimers[event.contestId] = 1
    /\ \E ws \in Sockets : readyState[ws] = "CLOSED" /\ socketContest[ws] = event.contestId

\* C26: a step of an aggregation request leaves the process-wide history as
\* it was, and the answer of a request is the leaderboard computed from the
\* requested list and the raw records alone, from an empty history,
\* whatever the process-wide history holds.
C26_RequestIgnoresProcessHistory ==
    [][event'.op \in {"request", "fetchOk"} =>
          /\ userContestHistory' = userContestHistory
          /\ response'.status = 200 =>
                response'.leaderboard =
                    multiContestStandings(response'.ids, response'.raw).leaderboard
      ]_vars

\* A request answered with a handle that the process-wide history knows
\* with a solved contest outside the requested list.
C26_Witness ==
    /\ event.op \in {"request", "fetchOk"}
    /\ response.status = 200
    /\ \E i \in 1..Len(response.leaderboard) :
          LET h == response.leaderboard[i].handle
          IN /\ response.leaderboard[i].score > 0
             /\ MapHas(userContestHistory, h)
             /\ \E k \in 1..Len(userContestHistory[h]) :
                   /\ userContestHistory[h][k].score > 0
                   /\ \A n \in 1..Len(response.ids) :
                         response.ids[n] # userContestHistory[h][k].contestId

\* C27: a cache entry is never removed and changes only in the step in
\* which a fetch of its contest answers OK, to the record that was fetched,
\* with the ranks, points and penalties upstream gave; a step that scores a
\* cached record (a tick, a subscription, a request) leaves the cache as it
\* was, and the raw records of an answered request are fetched records.
C27_ScoringLeavesCacheRaw ==
    [][/\ \A c \in DOMAIN contestCache : MapHas(contestCache', c)
       /\ \A c \in DOMAIN contestCache' :
             (~MapHas(contestCache, c) \/ contestCache'[c] # contestCache[c]) =>
                 /\ event'.op \in {"pollOk", "fetchOk", "orphanOk"}
                 /\ event'.contestId = c
                 /\ contestCache'[c] \in LiveRecords(c)
       /\ response'.status = 200 =>
             \A i \in 1..Len(response'.raw) : response'.raw[i] \in LiveRecords(response'.ids[i])
      ]_vars

\* A tick has scored and sent the cached record of a contest whose row has
\* input rank 2: the pass ranked the row first, the cache still says 2.
C27_Witness ==
    /\ event.op = "tick"
    /\ event.fetches = 0
    /\ \E ws \in Sockets : outbox[ws].standings = 1
    /\ MapHas(contestCache, event.contestId)
    /\ Len(contestCache[event.contestId].rows) = 1
    /\ contestCache[event.contestId].rows[1].rank = 2
    /\ calculateScoresAndStreaks(contestCache[event.contestId], event.contestId,
                                 userContestHistory).data.rows[1].rank = 1

\* The sum of f over the finite set S.
RECURSIVE sumOver(_, _)
sumOver(S, f) ==
    IF S = {} THEN 0
    ELSE LET x == CHOOSE y \in S : TRUE IN f[x] + sumOver(S \ {x}, f)

\* The penalty of the handle's row in the raw record of contest c.
penaltyIn(ids, raw, c, handle) ==
    LET rows == raw[CHOOSE i \in 1..Len(ids) : ids[i] = c].rows
    IN rows[CHOOSE k \in 1..Len(rows) : rows[k].handle = handle].penalty

\* C28: in every entry of a leaderboard answered 200 the total score is the
\* sum of the scores of the entry's per-contest mapping and the total
\* penalty the sum of the handle's penalties in the contests of the mapping,
\* for every requested list, lists that repeat an identifier included.
C28_TotalsAreSums ==
    response.status = 200 =>
        \A i \in 1..Len(response.leaderboard) :
            LET entry == response.leaderboard[i]
                cs == DOMAIN entry.contests
            IN /\ entry.score = sumOver(cs, [c \in cs |-> entry.contests[c].score])
               /\ entry.penalty =
                     sumOver(cs, [c \in cs |-> penaltyIn(response.ids, response.raw, c,
                                                          entry.handle)])

\* The upstream fetches of contest c that have been started and have not
\* answered yet: by live polls, by the running request, by failed requests.
inFlight(c) ==
    polls[c] + orphans[c] + Cardinality({i \in agg.pending : agg.ids[i] = c})

\* C30: no contest ever has two upstream fetches in flight at once.
C30_OneFetchInFlight == \A c \in Cids : inFlight(c) <= 1

NoMessage == [standings |-> 0, errors |-> 0]

\* C29: a listener that from some point on stays open, and so subscribed,
\* is sent a standings or an error message again and again: outbox holds
\* what the latest handler sent, and at every point of the run a later
\* handler sends the listener a message.  The first listener of a contest
\* and one that joins a contest with listeners are both covered.
C29_ListenerKeepsReceiving ==
    \A ws \in Sockets :
        (<>[](readyState[ws] = "OPEN")) => []<>(outbox[ws] # NoMessage)

\* A timer tick sends to both listeners of a contest, the first one and the
\* one that joined it.
C29_Witness ==
    /\ event.op = "tick"
    /\ \E c \in HubCids :
          /\ event.contestId = c
          /\ MapHas(rooms, c)
          /\ rooms[c] = Sockets
    /\ \A ws \in Sockets : readyState[ws] = "OPEN" /\ outbox[ws] # NoMessage

====
